---- MODULE Spec2Model ----
(***************************************************************************)
(* A model of go-asciicam-demo (src/main.go): the session run by run(),    *)
(* its frame loop over the two frame sources, the sample-capture mode, the *)
(* FPS window, the glyph quantiser pixelToASCII and the YUYV decoder       *)
(* frameToImage.                                                           *)
(***************************************************************************)
EXTENDS Integers, Sequences, FiniteSets, TLC

VARIABLES
    cfg,        \* the parsed flags: [gst, gen, screen, req] (main.go:53-71)
    pc,         \* position of run(): init, format, stream, output, top, capture, sample, render, done
    cancelled,  \* ctx.Err() != nil (main.go:37-44)
    res,        \* the resources of the session and the calls that release them
    defers,     \* run()'s stack of deferred calls, oldest first
    exit,       \* how the session ended: [kind, err, why]
    avail,      \* bytes written by the child to its stdout and not yet read
    sentBytes,  \* bytes the child has written in total
    decoded,    \* frames captured and decoded so far
    rendered,   \* frames resized, converted and written to the terminal so far
    subtracted, \* frames that went through greenscreen()
    i,          \* the sample index of run() (main.go:192)
    files,      \* files[k+1] is the ordinal of the decoded frame stored in <dir>/k.png
    fmtSet,     \* the format description SetImageFormat was called with, or <<>>
    negDims,    \* the <<width, height>> SetImageFormat returned, or <<0, 0>>
    decDims,    \* the <<width, height>> last passed to frameToImage, or <<0, 0>>
    lastRead,   \* the outcome of the last io.ReadFull / WaitForFrame+ReadFrame
    \* pixelToASCII applied along a row of pixels
    pixel,      \* the colour handed to pixelToASCII: [kind, c], c = <<R, G, B, A>>
    glyph,      \* the index into pixels it computed, -1 before the first call
    \* the FPS window
    fps,        \* the slice fps, fps[1] the most recent sample
    fpsa,       \* the sum last reported as fpsa / len(fps)
    prevFps,    \* the window before the last tick
    lastD,      \* time.Since(now) of the last tick, in nanoseconds
    runLen,     \* how many ticks in a row had elapsed time lastD
    ticks,      \* ticks since startup
    \* frameToImage
    dw, dh,     \* width and height
    frame,      \* the YUYV buffer
    dn,         \* the loop index i
    planeY, planeCb, planeCr,   \* yuyv.Y, yuyv.Cb, yuyv.Cr
    img,        \* the pixels of the RGBA image returned, row by row
    dpc         \* loop, draw, done, panic

runVars == <<cfg, pc, cancelled, res, defers, exit, avail, sentBytes, decoded,
             rendered, subtracted, i, files, fmtSet, negDims, decDims, lastRead>>

pixVars == <<pixel, glyph>>
fpsVars == <<fps, fpsa, prevFps, lastD, runLen, ticks>>
decVars == <<dw, dh, frame, dn, planeY, planeCb, planeCr, img, dpc>>

vars == <<runVars, pixVars, fpsVars, decVars>>

----------------------------------------------------------------------------
(* Bounds of the model and constants of the program *)

\* frames a source delivers at most when sample capture is off
MaxFrames == 3
\* bytes the child may be ahead of a whole frame in the pipe
PipeAhead == 1
\* the last sample index: the process exits once i > SampleCap (main.go:249)
SampleCap == 100
\* the index loadBgSamples reads (main.go:424)
BgIndex == 40

\* requested capture sizes (-camWidth, -camHeight), kept small
ReqDims == {<<2, 1>>, <<4, 1>>}
\* sizes a device may answer a SetImageFormat request with
NegDims == {<<2, 1>>, <<4, 1>>, <<2, 2>>}

YUYVDesc == <<"Y", "U", "Y", "V", " ", "4", ":", "2", ":", "2">>
MJPGDesc == <<"M", "J", "P", "G">>
YU12Desc == <<"Y", "U", "V", " ", "4", ":", "2", ":", "0">>
\* what a device may enumerate: sets of format descriptions
FormatSets == {{}, {MJPGDesc}, {MJPGDesc, YU12Desc}, {YUYVDesc}, {MJPGDesc, YUYVDesc}}

----------------------------------------------------------------------------
(* Helpers *)

\* strings.Contains(v, "YUYV") (main.go:148)
ContainsYUYV(v) ==
    \E k \in 1..Len(v) :
        /\ k + 3 <= Len(v)
        /\ v[k] = "Y" /\ v[k + 1] = "U" /\ v[k + 2] = "Y" /\ v[k + 3] = "V"

\* frameSizeRGB (main.go:189)
FrameSizeRGB(c) == c.req[1] * c.req[2] * 3

\* how many whole frames a source may deliver in this model
FrameCap(c) == IF c.gen THEN SampleCap + 2 ELSE MaxFrames

\* len(yuyv.Cb) of image.NewYCbCr(Rect(0,0,w,h), YCbCrSubsampleRatio422)
CbLen(w, h) == ((w + 1) \div 2) * h

\* whether the loop of frameToImage indexes outside frame or outside yuyv.Y
DecodePanics(len, w, h) ==
    \E n \in 0..(CbLen(w, h) - 1) : n * 2 + 1 >= w * h \/ n * 4 + 3 >= len

----------------------------------------------------------------------------
(* Resources and deferred cleanup *)

NoResources ==
    [child |-> "none", kills |-> 0, ctxKills |-> 0, closes |-> 0,
     cam |-> "none", camCloses |-> 0,
     streaming |-> FALSE, starts |-> 0, stops |-> 0,
     cursor |-> "shown", hides |-> 0, shows |-> 0,
     alt |-> FALSE, alts |-> 0, altExits |-> 0]

\* one deferred call of run(), applied to the resources
ApplyDefer(d, r) ==
    CASE d = "gstCleanup" ->
           [r EXCEPT !.closes = @ + 1, !.kills = @ + 1,
                     !.child = IF @ = "running" THEN "killed" ELSE @]
      [] d = "camClose" -> [r EXCEPT !.cam = "closed", !.camCloses = @ + 1]
      [] d = "stopStreaming" -> [r EXCEPT !.streaming = FALSE, !.stops = @ + 1]
      [] d = "showCursor" -> [r EXCEPT !.cursor = "shown", !.shows = @ + 1]
      [] d = "exitAltScreen" -> [r EXCEPT !.alt = FALSE, !.altExits = @ + 1]

\* the deferred calls run last-registered first
RECURSIVE RunDefers(_, _)
RunDefers(st, r) ==
    IF st = <<>> THEN r
    ELSE RunDefers(SubSeq(st, 1, Len(st) - 1), ApplyDefer(st[Len(st)], r))

\* return e from run(): the deferred calls run, main exits 1 iff e # "none"
Return(e, why) ==
    /\ pc' = "done"
    /\ exit' = [kind |-> "return", err |-> e, why |-> why]
    /\ res' = RunDefers(defers, res)
    /\ defers' = <<>>

\* a run-time panic unwinds run(): the deferred calls run, the process dies
Panic(why) ==
    /\ pc' = "done"
    /\ exit' = [kind |-> "panic", err |-> "panic", why |-> why]
    /\ res' = RunDefers(defers, res)
    /\ defers' = <<>>

\* os.Exit(0): the process ends at once, no deferred call runs
OsExit(why) ==
    /\ pc' = "done"
    /\ exit' = [kind |-> "osExit", err |-> "none", why |-> why]
    /\ UNCHANGED <<res, defers>>

\* a variant that takes only io.EOF for the end of the stream
IsStreamEndOnlyEOF(e) == e = "EOF"

\* err == io.EOF || err == io.ErrUnexpectedEOF
IsStreamEnd(e) == e = "EOF" \/ e = "ErrUnexpectedEOF"

\* io.ReadFull(gstReader, rgbBuf) on a stream holding a bytes, need n
ReadFull(a, n, ended) ==
    IF a >= n THEN "ok"
    ELSE IF ~ended THEN "block"
    ELSE IF a = 0 THEN "EOF" ELSE "ErrUnexpectedEOF"

\* a variant that stops one sample early
SampleCapOffByOne(n) == n >= SampleCap

\* if i > 100 (after i++)
SampleCapReached(n) == n > SampleCap

\* the step after a frame was decoded: if *gen { ... }
AfterDecode(c) == IF c.gen THEN "sample" ELSE "render"

\* a variant that forgets the !*gen
UsesGreenscreenAlways(c) == c.screen

\* whether greenscreen() runs in a tick: !*gen && *screen
UsesGreenscreen(c) == ~c.gen /\ c.screen

----------------------------------------------------------------------------
(* The session *)

\* the flag settings tried; the child's frames are kept at the smallest size
GstDims == {<<2, 1>>}
Configs ==
    {c \in [gst : BOOLEAN, gen : BOOLEAN, screen : BOOLEAN, req : ReqDims] :
        c.gst => c.req \in GstDims}

\* the parts of the state a specification of one part leaves alone
IdleRun ==
    /\ cfg = [gst |-> FALSE, gen |-> FALSE, screen |-> FALSE, req |-> <<0, 0>>]
    /\ pc = "idle"
    /\ cancelled = FALSE
    /\ res = NoResources
    /\ defers = <<>>
    /\ exit = [kind |-> "none", err |-> "none", why |-> "none"]
    /\ avail = 0 /\ sentBytes = 0 /\ decoded = 0 /\ rendered = 0 /\ subtracted = 0
    /\ i = 0 /\ files = <<>> /\ fmtSet = <<>>
    /\ negDims = <<0, 0>> /\ decDims = <<0, 0>> /\ lastRead = "none"
IdlePix == pixel = [kind |-> "none", c |-> <<0, 0, 0, 0>>] /\ glyph = -1
IdleFps == fps = <<>> /\ fpsa = 0 /\ prevFps = <<>> /\ lastD = 0 /\ runLen = 0 /\ ticks = 0
IdleDec ==
    /\ dw = 0 /\ dh = 0 /\ frame = <<>> /\ dn = 0
    /\ planeY = <<>> /\ planeCb = <<>> /\ planeCr = <<>> /\ img = <<>> /\ dpc = "idle"

InitRun ==
    /\ IdlePix /\ IdleFps /\ IdleDec
    /\ cfg \in Configs
    /\ pc = "init"
    /\ cancelled = FALSE
    /\ res = NoResources
    /\ defers = <<>>
    /\ exit = [kind |-> "none", err |-> "none", why |-> "none"]
    /\ avail = 0
    /\ sentBytes = 0
    /\ decoded = 0
    /\ rendered = 0
    /\ subtracted = 0
    /\ i = 0
    /\ files = <<>>
    /\ fmtSet = <<>>
    /\ negDims = <<0, 0>>
    /\ decDims = <<0, 0>>
    /\ lastRead = "none"

\* SIGINT/SIGTERM: the goroutine of main calls cancel()
Interrupt ==
    /\ UNCHANGED <<pixVars, fpsVars, decVars>>
    /\ pc # "done"
    /\ ~cancelled
    /\ cancelled' = TRUE
    /\ UNCHANGED <<cfg, pc, res, defers, exit, avail, sentBytes, decoded, rendered,
                   subtracted, i, files, fmtSet, negDims, decDims, lastRead>>

\* exec.CommandContext: once ctx is done the command's process is killed
WatchCtx ==
    /\ UNCHANGED <<pixVars, fpsVars, decVars>>
    /\ pc # "done"
    /\ cancelled
    /\ res.child = "running"
    /\ res' = [res EXCEPT !.child = "killed", !.ctxKills = @ + 1]
    /\ UNCHANGED <<cfg, pc, cancelled, defers, exit, avail, sentBytes, decoded,
                   rendered, subtracted, i, files, fmtSet, negDims, decDims, lastRead>>

\* the child writes n more bytes of raw RGB to its stdout
ChildWrite ==
    /\ UNCHANGED <<pixVars, fpsVars, decVars>>
    /\ pc # "done"
    /\ res.child = "running"
    /\ \E n \in 1..FrameSizeRGB(cfg) :
         /\ avail + n <= FrameSizeRGB(cfg) + PipeAhead
         /\ sentBytes + n <= FrameCap(cfg) * FrameSizeRGB(cfg) + (FrameSizeRGB(cfg) - 1)
         /\ avail' = avail + n
         /\ sentBytes' = sentBytes + n
    /\ UNCHANGED <<cfg, pc, cancelled, res, defers, exit, decoded, rendered,
                   subtracted, i, files, fmtSet, negDims, decDims, lastRead>>

\* the child ends by itself and its end of the pipe closes
ChildExit ==
    /\ UNCHANGED <<pixVars, fpsVars, decVars>>
    /\ pc # "done"
    /\ res.child = "running"
    /\ res' = [res EXCEPT !.child = "exited"]
    /\ UNCHANGED <<cfg, pc, cancelled, defers, exit, avail, sentBytes, decoded,
                   rendered, subtracted, i, files, fmtSet, negDims, decDims, lastRead>>

\* startGstPipe and the deferred close+kill (main.go:117-132)
StartGst ==
    /\ UNCHANGED <<pixVars, fpsVars, decVars>>
    /\ pc = "init"
    /\ cfg.gst
    /\ \/ /\ Return("startGst", "error")
       \/ /\ ~cancelled        \* cmd.Start fails on a context that is already done
          /\ res' = [res EXCEPT !.child = "running"]
          /\ defers' = Append(defers, "gstCleanup")
          /\ pc' = "output"
          /\ UNCHANGED exit
    /\ UNCHANGED <<cfg, cancelled, avail, sentBytes, decoded, rendered, subtracted,
                   i, files, fmtSet, negDims, decDims, lastRead>>

\* webcam.Open and defer cam.Close() (main.go:138-142)
OpenDevice ==
    /\ UNCHANGED <<pixVars, fpsVars, decVars>>
    /\ pc = "init"
    /\ ~cfg.gst
    /\ \/ Return("open", "error")
       \/ /\ res' = [res EXCEPT !.cam = "open"]
          /\ defers' = Append(defers, "camClose")
          /\ pc' = "format"
          /\ UNCHANGED exit
    /\ UNCHANGED <<cfg, cancelled, avail, sentBytes, decoded, rendered, subtracted,
                   i, files, fmtSet, negDims, decDims, lastRead>>

\* the loop over cam.GetSupportedFormats() (main.go:145-156); a Go map is
\* ranged over in no fixed order, so any YUYV entry may be the one met first
SetFormat ==
    /\ UNCHANGED <<pixVars, fpsVars, decVars>>
    /\ pc = "format"
    /\ \E fs \in FormatSets :
         IF \A v \in fs : ~ContainsYUYV(v)
         THEN /\ pc' = "stream"
              /\ UNCHANGED <<fmtSet, negDims, res, defers, exit>>
         ELSE \E v \in {x \in fs : ContainsYUYV(x)} :
                \/ /\ Return("setImageFormat", "error")
                   /\ UNCHANGED <<fmtSet, negDims>>
                \/ /\ \E d \in NegDims : negDims' = d
                   /\ fmtSet' = v
                   /\ pc' = "stream"
                   /\ UNCHANGED <<res, defers, exit>>
    /\ UNCHANGED <<cfg, cancelled, avail, sentBytes, decoded, rendered, subtracted,
                   i, files, decDims, lastRead>>

\* cam.StartStreaming and defer cam.StopStreaming() (main.go:159-164)
StartStreaming ==
    /\ UNCHANGED <<pixVars, fpsVars, decVars>>
    /\ pc = "stream"
    /\ \/ Return("startStreaming", "error")
       \/ /\ res' = [res EXCEPT !.streaming = TRUE, !.starts = @ + 1]
          /\ defers' = Append(defers, "stopStreaming")
          /\ pc' = "output"
          /\ UNCHANGED exit
    /\ UNCHANGED <<cfg, cancelled, avail, sentBytes, decoded, rendered, subtracted,
                   i, files, fmtSet, negDims, decDims, lastRead>>

\* loadBgSamples, then HideCursor/AltScreen and their defers (main.go:167-180)
PrepareOutput ==
    /\ UNCHANGED <<pixVars, fpsVars, decVars>>
    /\ pc = "output"
    /\ \/ /\ UsesGreenscreen(cfg)
          /\ Return("loadBgSamples", "error")
       \/ /\ res' = [res EXCEPT !.cursor = "hidden", !.hides = @ + 1,
                                !.alt = TRUE, !.alts = @ + 1]
          /\ defers' = defers \o <<"showCursor", "exitAltScreen">>
          /\ pc' = "top"
          /\ UNCHANGED exit
    /\ UNCHANGED <<cfg, cancelled, avail, sentBytes, decoded, rendered, subtracted,
                   i, files, fmtSet, negDims, decDims, lastRead>>

\* a variant of the head of the loop that never looks at ctx
LoopTopIgnoresCtx ==
    /\ UNCHANGED <<pixVars, fpsVars, decVars>>
    /\ pc = "top"
    /\ pc' = "capture"
    /\ UNCHANGED <<res, defers, exit>>
    /\ UNCHANGED <<cfg, cancelled, avail, sentBytes, decoded, rendered, subtracted,
                   i, files, fmtSet, negDims, decDims, lastRead>>

\* the head of the frame loop: if ctx.Err() != nil { return nil } (main.go:193-196)
LoopTop ==
    /\ UNCHANGED <<pixVars, fpsVars, decVars>>
    /\ pc = "top"
    /\ IF cancelled
       THEN Return("none", "cancel")
       ELSE /\ pc' = "capture"
            /\ UNCHANGED <<res, defers, exit>>
    /\ UNCHANGED <<cfg, cancelled, avail, sentBytes, decoded, rendered, subtracted,
                   i, files, fmtSet, negDims, decDims, lastRead>>

GstEnded == res.child \in {"exited", "killed"}

\* one frame from the child: io.ReadFull and frameRGBToImage (main.go:200-209)
CaptureGst ==
    /\ UNCHANGED <<pixVars, fpsVars, decVars>>
    /\ pc = "capture"
    /\ cfg.gst
    /\ LET n == FrameSizeRGB(cfg)
           e == ReadFull(avail, n, GstEnded)
       IN \/ /\ e = "ok"
             /\ avail' = avail - n
             /\ decoded' = decoded + 1
             /\ lastRead' = "ok"
             /\ pc' = AfterDecode(cfg)
             /\ UNCHANGED <<res, defers, exit>>
          \/ /\ e \in {"EOF", "ErrUnexpectedEOF"}
             /\ avail' = 0
             /\ lastRead' = e
             /\ IF IsStreamEnd(e)
                THEN Return("none", "streamEnd")
                ELSE Return("readGst", "error")
             /\ UNCHANGED decoded
    /\ UNCHANGED <<cfg, cancelled, sentBytes, rendered, subtracted, i, files,
                   fmtSet, negDims, decDims>>

\* io.ReadFull fails with an error that is no end of stream (main.go:207)
GstReadError ==
    /\ UNCHANGED <<pixVars, fpsVars, decVars>>
    /\ pc = "capture"
    /\ cfg.gst
    /\ lastRead' = "ioError"
    /\ Return("readGst", "error")
    /\ UNCHANGED <<cfg, cancelled, avail, sentBytes, decoded, rendered, subtracted,
                   i, files, fmtSet, negDims, decDims>>

\* lengths of the frames the device hands out
DeviceFrameLens ==
    IF negDims # <<0, 0>>
    THEN {negDims[1] * negDims[2] * 2}
    ELSE {d[1] * d[2] * 2 : d \in NegDims} \cup {3}

\* one frame from the device: WaitForFrame, ReadFrame, frameToImage (main.go:211-229)
CaptureDev ==
    /\ UNCHANGED <<pixVars, fpsVars, decVars>>
    /\ pc = "capture"
    /\ ~cfg.gst
    /\ \/ /\ lastRead' = "timeout"          \* *webcam.Timeout: continue
          /\ pc' = "top"
          /\ UNCHANGED <<res, defers, exit, decoded, decDims>>
       \/ /\ lastRead' = "waitError"
          /\ Return("waitForFrame", "error")
          /\ UNCHANGED <<decoded, decDims>>
       \/ /\ lastRead' = "readError"
          /\ Return("readFrame", "error")
          /\ UNCHANGED <<decoded, decDims>>
       \/ /\ lastRead' = "empty"            \* len(frame) == 0: continue
          /\ pc' = "top"
          /\ UNCHANGED <<res, defers, exit, decoded, decDims>>
       \/ /\ decoded < FrameCap(cfg)
          /\ \E len \in DeviceFrameLens :
               /\ lastRead' = "ok"
               /\ decDims' = cfg.req
               /\ IF DecodePanics(len, cfg.req[1], cfg.req[2])
                  THEN /\ Panic("frameToImage")
                       /\ UNCHANGED decoded
                  ELSE /\ decoded' = decoded + 1
                       /\ pc' = AfterDecode(cfg)
                       /\ UNCHANGED <<res, defers, exit>>
    /\ UNCHANGED <<cfg, cancelled, avail, sentBytes, rendered, subtracted, i, files,
                   fmtSet, negDims>>

\* sample capture: MkdirAll, Create, png.Encode, i++, exit after the last (main.go:234-252)
Sample ==
    /\ UNCHANGED <<pixVars, fpsVars, decVars>>
    /\ pc = "sample"
    /\ \/ /\ \E e \in {"mkdirAll", "create", "encode"} : Return(e, "error")
          /\ UNCHANGED <<i, files>>
       \/ /\ files' = Append(files, [index |-> i, frame |-> decoded - 1])
          /\ i' = i + 1
          /\ IF SampleCapReached(i + 1)
             THEN OsExit("sampleCap")
             ELSE /\ pc' = "render"
                  /\ UNCHANGED <<res, defers, exit>>
    /\ UNCHANGED <<cfg, cancelled, avail, sentBytes, decoded, rendered, subtracted,
                   fmtSet, negDims, decDims, lastRead>>

\* resize, greenscreen, convert, write to the terminal (main.go:254-274)
Render ==
    /\ UNCHANGED <<pixVars, fpsVars, decVars>>
    /\ pc = "render"
    /\ subtracted' = IF UsesGreenscreen(cfg) THEN subtracted + 1 ELSE subtracted
    /\ rendered' = rendered + 1
    /\ pc' = "top"
    /\ UNCHANGED <<cfg, cancelled, res, defers, exit, avail, sentBytes, decoded,
                   i, files, fmtSet, negDims, decDims, lastRead>>

\* the steps run() takes whenever it can: every call it makes returns, the
\* device wait after a second at most, the read from the child once a whole
\* frame or the end of the stream is there
Step ==
    \/ StartGst \/ OpenDevice \/ SetFormat \/ StartStreaming \/ PrepareOutput
    \/ LoopTop \/ CaptureGst \/ CaptureDev \/ Sample \/ Render

Next ==
    \/ Interrupt \/ WatchCtx \/ ChildWrite \/ ChildExit
    \/ StartGst \/ OpenDevice \/ SetFormat \/ StartStreaming \/ PrepareOutput
    \/ LoopTop \/ CaptureGst \/ GstReadError \/ CaptureDev \/ Sample \/ Render

Spec == InitRun /\ [][Next]_vars

\* the scheduler runs run() whenever it can take a step, and the goroutine
\* that watches the command's context once the context is done
FairSpec == InitRun /\ [][Next]_vars /\ WF_vars(Step) /\ WF_vars(WatchCtx)

----------------------------------------------------------------------------
(* Claims about the session *)

MidTick == {"capture", "sample", "render"}

\* C1: on every path by which the session ends, each acquired resource has
\* been released exactly once: the child killed once and its stdout closed
\* once, streaming stopped once and the device closed once, the alternate
\* screen left once and the cursor shown once.
C1_ReleasedExactlyOnce ==
    pc = "done" =>
        /\ (res.child # "none" => res.kills = 1 /\ res.closes = 1)
        /\ (res.cam # "none" => res.camCloses = 1)
        /\ (res.starts > 0 => res.stops = 1)
        /\ (res.hides > 0 => res.shows = 1)
        /\ (res.alts > 0 => res.altExits = 1)

\* C2 as claimed: in child-process mode a stream end at a frame boundary ends
\* run with no error and every delivered frame decoded and rendered, and every
\* other incomplete read, a stream end partway through a frame included, makes
\* run return an error.
C2_Original ==
    (cfg.gst /\ pc = "done") =>
        /\ (lastRead = "EOF" =>
              /\ exit.err = "none"
              /\ decoded * FrameSizeRGB(cfg) = sentBytes
              /\ rendered = decoded)
        /\ (lastRead \in {"ErrUnexpectedEOF", "ioError"} => exit.err # "none")

\* C2 amended: in child-process mode every frame decoded was read as exactly
\* camWidth*camHeight*3 bytes; a stream end, at a frame boundary or partway
\* through a frame, ends run with no error, with exactly the whole frames the
\* child delivered decoded and rendered and the bytes of a partial frame
\* dropped; only a read failure that is no stream end makes run return an error.
C2_StreamEnd ==
    cfg.gst =>
        /\ (lastRead \notin {"EOF", "ErrUnexpectedEOF"} =>
              sentBytes = decoded * FrameSizeRGB(cfg) + avail)
        /\ (pc = "done" /\ lastRead = "EOF" =>
              /\ exit = [kind |-> "return", err |-> "none", why |-> "streamEnd"]
              /\ sentBytes = decoded * FrameSizeRGB(cfg)
              /\ rendered = decoded)
        /\ (pc = "done" /\ lastRead = "ErrUnexpectedEOF" =>
              /\ exit = [kind |-> "return", err |-> "none", why |-> "streamEnd"]
              /\ decoded = sentBytes \div FrameSizeRGB(cfg)
              /\ sentBytes % FrameSizeRGB(cfg) # 0
              /\ rendered = decoded)
        /\ (pc = "done" /\ lastRead = "ioError" =>
              exit = [kind |-> "return", err |-> "readGst", why |-> "error"])

\* a stream that ended partway through a frame, after whole frames were rendered
C2_Witness ==
    /\ cfg.gst /\ pc = "done" /\ lastRead = "ErrUnexpectedEOF"
    /\ decoded >= 2 /\ rendered = decoded /\ exit.err = "none"

\* C3 as claimed: a tick in progress once cancellation is raised never ends
\* the session (it runs on to the top of the loop), and once cancellation is
\* raised the session ends with no error.
C3_Original ==
    /\ [][(cancelled /\ pc \in MidTick) => pc' # "done"]_vars
    /\ (cancelled ~> (pc = "done" /\ exit.err = "none"))

\* C3 amended: run acts on the cancellation flag only at the top of a tick,
\* where it returns with no error; a tick in progress is never ended by the
\* flag itself, only by its own outcomes (a skipped or failed capture, a
\* failed sample write, the sample cap, or the end of the child's stream,
\* which cancellation brings about by killing the child); and once
\* cancellation is raised the session ends.
C3_Cancellation ==
    /\ [][exit'.why = "cancel" =>
            /\ pc = "top" /\ cancelled
            /\ exit' = [kind |-> "return", err |-> "none", why |-> "cancel"]]_vars
    /\ [][(pc \in MidTick /\ pc' = "done") => exit'.why # "cancel"]_vars
    /\ (cancelled ~> pc = "done")

\* run returned at the top of a tick because of cancellation, after rendering
C3_Witness ==
    /\ pc = "done" /\ cancelled /\ exit.why = "cancel" /\ rendered >= 1

\* C4: in device mode streaming is started, and the frame loop entered, only
\* after a format advertising YUYV was set.
C4_StreamingNeedsYUYV ==
    (~cfg.gst /\ (res.starts > 0 \/ pc \in {"top"} \cup MidTick)) => ContainsYUYV(fmtSet)

\* C5: in device mode the width and height passed to frameToImage are the ones
\* format negotiation returned.
C5_DecodeUsesNegotiated ==
    (~cfg.gst /\ decDims # <<0, 0>> /\ negDims # <<0, 0>>) => decDims = negDims

\* C6 as claimed: while the generate-background toggle is on, no tick resizes,
\* renders or writes a frame to the terminal.
C6_Original == cfg.gen => rendered = 0

\* C6 amended: with the generate-background toggle on, a tick with a decoded
\* frame first writes one numbered sample file and then still resizes,
\* converts and writes the frame to the terminal; only background subtraction
\* never runs, and only the tick that writes the last sample ends the process
\* before it renders.
C6_GenTick ==
    cfg.gen =>
        /\ subtracted = 0
        /\ (pc \in {"top", "capture"} => rendered = decoded /\ Len(files) = decoded)
        /\ (pc = "sample" => rendered = decoded - 1 /\ Len(files) = decoded - 1)
        /\ (pc = "render" => rendered = decoded - 1 /\ Len(files) = decoded)
        /\ (exit.why = "sampleCap" => rendered = Len(files) - 1)

\* sample capture with greenscreen requested, several frames sampled and rendered
C6_Witness == cfg.gen /\ cfg.screen /\ rendered >= 2 /\ Len(files) = rendered

\* C7: in sample-capture mode the k-th decoded frame (k = 0, 1, ...) is stored
\* under index k with no gap or repeat, a tick without a frame takes no index,
\* no index above 100 is written, and the process ends right after index 100
\* was written, with the 101 files 0..100, index 40 among them.
C7_SampleIndices ==
    /\ Len(files) = i
    /\ (~cfg.gen => i = 0)
    /\ i <= SampleCap + 1
    /\ \A k \in 1..Len(files) : files[k] = [index |-> k - 1, frame |-> k - 1]
    /\ (i = SampleCap + 1 => pc = "done" /\ exit.why = "sampleCap")
    /\ (exit.why = "sampleCap" =>
          /\ exit.kind = "osExit"
          /\ Len(files) = SampleCap + 1
          /\ files[BgIndex + 1].index = BgIndex)

\* the process ended by the sample cap in device mode
C7_Witness ==
    /\ cfg.gen /\ ~cfg.gst /\ exit.kind = "osExit" /\ Len(files) = SampleCap + 1

----------------------------------------------------------------------------
(* pixelToASCII (main.go:353-365) *)

\* the glyph ramp (main.go:32)
pixels == <<" ", ".", ",", ":", ";", "i", "1", "t", "f", "L", "C", "G", "0", "8", "@">>

\* pixel.RGBA(): 16-bit alpha-premultiplied channels. A color.NRGBA (what
\* imageToASCII passes) multiplies each channel by alpha; a color.RGBA holds
\* premultiplied channels already and only widens them.
ColorRGBA(p) ==
    LET R == p.c[1]  G == p.c[2]  B == p.c[3]  A == p.c[4]
    IN IF p.kind = "NRGBA"
       THEN <<(R * 257 * A) \div 255, (G * 257 * A) \div 255,
              (B * 257 * A) \div 255, A * 257>>
       ELSE <<R * 257, G * 257, B * 257, A * 257>>

\* intensity := (r + g + b) * a / 255 with r = uint(r2 / 256), ...
Intensity(p) ==
    LET q == ColorRGBA(p)
        r == q[1] \div 256  g == q[2] \div 256  b == q[3] \div 256  a == q[4] \div 256
    IN ((r + g + b) * a) \div 255

\* a variant that divides by the number of glyphs
PrecisionByLen == (255 * 3) \div Len(pixels)

\* precision := float64(255 * 3 / (len(pixels) - 1)): an integer division
Precision == (255 * 3) \div (Len(pixels) - 1)

\* v := int(math.Floor(float64(intensity)/precision + 0.5)); every value
\* involved is a multiple of 1/(2*precision), so the floor is exact
PixelToASCII(p) == (2 * Intensity(p) + Precision) \div (2 * Precision)

\* step between the sums R+G+B tried at the alphas other than 255
GridStep == 15

\* a colour whose channels sum to s, as equal as they can be
Grey(k, s, a) ==
    [kind |-> k,
     c |-> <<s \div 3 + (IF s % 3 >= 1 THEN 1 ELSE 0),
             s \div 3 + (IF s % 3 >= 2 THEN 1 ELSE 0), s \div 3, a>>]

PixelSet ==
    {Grey("RGBA", s, 255) : s \in 0..765}
    \cup {Grey(k, s, a) : k \in {"RGBA", "NRGBA"},
                          s \in {t \in 0..765 : t % GridStep = 0 \/ t = 765},
                          a \in {0, 1, 127, 128, 254, 255}}
    \cup {[kind |-> k, c |-> <<255, 0, 0, a>>] : k \in {"RGBA", "NRGBA"}, a \in {64, 255}}

InitPix ==
    /\ IdleRun /\ IdleFps /\ IdleDec
    /\ pixel = [kind |-> "none", c |-> <<0, 0, 0, 0>>]
    /\ glyph = -1

\* imageToASCII takes the next pixel of the row and converts it (main.go:372-373)
ConvertPixel ==
    /\ \E q \in PixelSet :
         /\ pixel' = q
         /\ glyph' = PixelToASCII(q)
    /\ UNCHANGED <<runVars, fpsVars, decVars>>

NextPix == ConvertPixel

PixelSpec == InitPix /\ [][NextPix]_vars

\* C8: for every pixel with 8-bit channels the glyph index lies in 0..14, the
\* bounds of the 15-entry ramp; it never decreases when the alpha-weighted
\* intensity (R+G+B)*A/255 grows; intensity 0 gives the first glyph (space)
\* and intensity 765 the last, densest one.
C8_GlyphIndex ==
    /\ [](glyph # -1 =>
            /\ glyph \in 0..(Len(pixels) - 1)
            /\ Len(pixels) = 15
            /\ Intensity(pixel) \in 0..765
            /\ (pixel.kind = "RGBA" =>
                  Intensity(pixel) =
                      ((pixel.c[1] + pixel.c[2] + pixel.c[3]) * pixel.c[4]) \div 255)
            /\ (Intensity(pixel) = 0 => glyph = 0 /\ pixels[glyph + 1] = " ")
            /\ (Intensity(pixel) = 765 => glyph = 14 /\ pixels[glyph + 1] = "@"))
    /\ [][(glyph # -1 /\ Intensity(pixel) <= Intensity(pixel')) => glyph <= glyph']_vars

\* a fully bright opaque pixel was converted, to the last glyph
C8_Witness ==
    /\ pixel.kind = "RGBA" /\ pixel.c = <<255, 255, 255, 255>> /\ glyph = 14

----------------------------------------------------------------------------
(* The FPS window (main.go:182-186, 276-288) *)

\* len(fps) after the seeding loop (main.go:184)
FpsSlots == 10
\* time.Second in nanoseconds (main.go:280)
Second == 1000000000

\* elapsed times of a tick, in nanoseconds: 1 ms, 30 ms, 1.5 s
Durations == {1000000, 30000000, 1500000000}

\* for i := 0; i < 10; i++ { fps = append(fps, 0) }
RECURSIVE SeedFps(_, _)
SeedFps(f, n) == IF n >= FpsSlots THEN f ELSE SeedFps(Append(f, 0), n + 1)

\* a variant of the shift that walks the window from the front
RECURSIVE ShiftUp(_, _)
ShiftUp(f, k) == IF k <= Len(f) THEN ShiftUp([f EXCEPT ![k] = f[k - 1]], k + 1) ELSE f
ShiftFpsAscending(f, k) == ShiftUp(f, 2)

\* for i := len(fps) - 1; i > 0; i-- { fps[i] = fps[i-1] }  (indices from 1 here)
RECURSIVE ShiftFps(_, _)
ShiftFps(f, k) == IF k > 1 THEN ShiftFps([f EXCEPT ![k] = f[k - 1]], k - 1) ELSE f

\* float64(time.Second / time.Since(now)): a division of two integer Durations
FpsSample(d) == Second \div d

RECURSIVE SumFps(_, _)
SumFps(f, k) == IF k = 0 THEN 0 ELSE f[k] + SumFps(f, k - 1)

InitFps ==
    /\ IdleRun /\ IdlePix /\ IdleDec
    /\ fps = SeedFps(<<>>, 0)
    /\ fpsa = 0
    /\ prevFps = <<>>
    /\ lastD = 0
    /\ runLen = 0
    /\ ticks = 0

\* the FPS part of a tick with -fps set, the frame having taken d to convert and write
FpsTick ==
    /\ \E d \in Durations :
         LET shifted == ShiftFps(fps, Len(fps))
             f == [shifted EXCEPT ![1] = FpsSample(d)]
         IN /\ fps' = f
            /\ fpsa' = SumFps(f, Len(f))
            /\ prevFps' = fps
            /\ lastD' = d
            /\ runLen' = IF d = lastD THEN (IF runLen < FpsSlots THEN runLen + 1 ELSE runLen)
                         ELSE 1
    /\ ticks' = IF ticks < FpsSlots THEN ticks + 1 ELSE ticks
    /\ UNCHANGED <<runVars, pixVars, decVars>>

NextFps == FpsTick

FpsSpec == InitFps /\ [][NextFps]_vars

\* C9 as claimed: the new sample is 1/elapsed, so after 10 ticks in a row with
\* the same elapsed time d the mean reported, fpsa/10, is 1/d: (fpsa/10)*d is
\* one second.
C9_Original ==
    runLen >= FpsSlots => (fpsa % FpsSlots = 0 /\ (fpsa \div FpsSlots) * lastD = Second)

\* C9 amended: the window always has 10 slots, all 0 at startup; a tick moves
\* every sample one slot back, dropping the oldest, puts the whole-number
\* quotient of one second by the elapsed time at the front and reports the
\* mean of the 10 slots; after 10 ticks in a row with elapsed time d the mean
\* is that quotient, floor(1/d) per second, which is at most 1/d; after k < 10
\* such ticks since startup it is k/10 of the quotient.
C9_Window ==
    /\ Len(fps) = FpsSlots
    /\ (ticks = 0 => \A k \in 1..FpsSlots : fps[k] = 0)
    /\ (ticks > 0 =>
          /\ fps[1] = Second \div lastD
          /\ \A k \in 2..FpsSlots : fps[k] = prevFps[k - 1]
          /\ fpsa = SumFps(fps, FpsSlots)
          /\ fps[1] * lastD <= Second
          /\ Second - fps[1] * lastD < lastD)
    /\ (runLen >= FpsSlots => fpsa = FpsSlots * (Second \div lastD))
    /\ (ticks > 0 /\ ticks < FpsSlots /\ runLen = ticks => fpsa = ticks * (Second \div lastD))

\* ten ticks in a row that took 30 ms each: the mean reported is 33
C9_Witness == runLen >= FpsSlots /\ lastD = 30000000 /\ fpsa = 330

----------------------------------------------------------------------------
(* frameToImage (main.go:313-328) *)

\* largest width and height tried
MaxW == 4
MaxH == 3
\* how many patterned buffers are tried per size, besides all-0 and all-255
MaxSeed == 2

\* the buffers tried for a length: all 0, all 255, and patterns of distinct bytes
Buffers(len) ==
    {[k \in 1..len |-> 0], [k \in 1..len |-> 255]}
    \cup {[k \in 1..len |-> (s * 97 + k * 41) % 256] : s \in 1..MaxSeed}

\* a variant that takes the group as U Y0 V Y1
GroupBytesUYVY(fr, n) ==
    [cb |-> fr[n * 4 + 1], y0 |-> fr[n * 4 + 2], cr |-> fr[n * 4 + 3], y1 |-> fr[n * 4 + 4]]

\* the four bytes frame[ii], frame[ii+1], frame[ii+2], frame[ii+3] of group n
\* as the loop distributes them: Y[n*2], Cb[n], Y[n*2+1], Cr[n]
GroupBytes(fr, n) ==
    [y0 |-> fr[n * 4 + 1], cb |-> fr[n * 4 + 2], y1 |-> fr[n * 4 + 3], cr |-> fr[n * 4 + 4]]

Clamp8(x) == IF x < 0 THEN 0 ELSE IF x > 16777215 THEN 255 ELSE x \div 65536

\* the YCbCr to RGB transform draw.Draw applies to the pixel (main.go:325)
YCbCrToRGB(y, cb, cr) ==
    LET yy1 == y * 65793
        cb1 == cb - 128
        cr1 == cr - 128
    IN <<Clamp8(yy1 + 91881 * cr1),
         Clamp8(yy1 - 22554 * cb1 - 46802 * cr1),
         Clamp8(yy1 + 116130 * cb1)>>

\* the pixel draw.Draw writes at (x, y): yuyv.YOffset and yuyv.COffset for 4:2:2
DrawPixel(x, y) ==
    LET yi == y * dw + x
        ci == y * ((dw + 1) \div 2) + x \div 2
        rgb == YCbCrToRGB(planeY[yi + 1], planeCb[ci + 1], planeCr[ci + 1])
    IN [r |-> rgb[1], g |-> rgb[2], b |-> rgb[3], a |-> 255]

InitDec ==
    /\ IdleRun /\ IdlePix /\ IdleFps
    /\ dw \in 1..MaxW
    /\ dh \in 1..MaxH
    /\ frame \in Buffers(dw * dh * 2)
    /\ dn = 0
    /\ planeY = [k \in 1..(dw * dh) |-> 0]          \* image.NewYCbCr
    /\ planeCb = [k \in 1..CbLen(dw, dh) |-> 0]
    /\ planeCr = [k \in 1..CbLen(dw, dh) |-> 0]
    /\ img = <<>>
    /\ dpc = "loop"

\* one pass of for i := range yuyv.Cb; an index out of range is a run-time panic
DecodeIter ==
    /\ dpc = "loop"
    /\ IF dn >= Len(planeCb)
       THEN /\ dpc' = "draw"
            /\ UNCHANGED <<dn, planeY, planeCb, planeCr>>
       ELSE IF dn * 4 + 3 >= Len(frame) \/ dn * 2 + 1 >= Len(planeY)
       THEN /\ dpc' = "panic"
            /\ UNCHANGED <<dn, planeY, planeCb, planeCr>>
       ELSE LET g == GroupBytes(frame, dn)
            IN /\ planeY' = [planeY EXCEPT ![dn * 2 + 1] = g.y0, ![dn * 2 + 2] = g.y1]
               /\ planeCb' = [planeCb EXCEPT ![dn + 1] = g.cb]
               /\ planeCr' = [planeCr EXCEPT ![dn + 1] = g.cr]
               /\ dn' = dn + 1
               /\ UNCHANGED dpc
    /\ UNCHANGED <<dw, dh, frame, img>>
    /\ UNCHANGED <<runVars, pixVars, fpsVars>>

\* image.NewRGBA and draw.Draw(img, img.Bounds(), yuyv, b.Min, draw.Src)
DrawImage ==
    /\ dpc = "draw"
    /\ img' = [k \in 1..(dw * dh) |-> DrawPixel((k - 1) % dw, (k - 1) \div dw)]
    /\ dpc' = "done"
    /\ UNCHANGED <<dw, dh, frame, dn, planeY, planeCb, planeCr>>
    /\ UNCHANGED <<runVars, pixVars, fpsVars>>

NextDec == DecodeIter \/ DrawImage

DecodeSpec == InitDec /\ [][NextDec]_vars

\* what the claim says of the image: width*height pixels, all of alpha 255,
\* pixel k (row by row, from 0) made of luma byte 2k of the buffer and of the
\* chroma bytes of its 4-byte group, which it shares with its row neighbour
DecodedRight ==
    /\ Len(img) = dw * dh
    /\ \A k \in 0..(dw * dh - 1) :
         LET grp == k \div 2
             rgb == YCbCrToRGB(frame[2 * k + 1], frame[4 * grp + 2], frame[4 * grp + 4])
         IN /\ img[k + 1] = [r |-> rgb[1], g |-> rgb[2], b |-> rgb[3], a |-> 255]
            /\ (2 * grp) \div dw = (2 * grp + 1) \div dw
            /\ (2 * grp + 1) % dw = ((2 * grp) % dw) + 1

\* C10 as claimed: for every positive width and height and every buffer of
\* width*height*2 bytes frameToImage never indexes out of bounds and returns
\* the image described.
C10_Original ==
    /\ dpc # "panic"
    /\ (dpc = "done" => DecodedRight)

\* C10 amended: for every even positive width, every positive height and
\* every buffer of width*height*2 bytes frameToImage never indexes outside the
\* buffer or its planes, and returns an image of width*height pixels, all of
\* alpha 255, in which each 4-byte group Y0 U Y1 V gives the luma of two
\* adjacent pixels of one row and the chroma they share.
C10_EvenWidth ==
    dw % 2 = 0 =>
        /\ dpc # "panic"
        /\ dn <= Len(planeCb)
        /\ (dpc = "loop" => \A n \in 0..(dn - 1) :
                               /\ planeY[2 * n + 1] = frame[4 * n + 1]
                               /\ planeY[2 * n + 2] = frame[4 * n + 3])
        /\ (dpc = "done" => DecodedRight)

\* a 4x2 frame of distinct bytes was decoded
C10_Witness ==
    /\ dpc = "done" /\ dw = 4 /\ dh = 2 /\ frame[1] # frame[3] /\ Len(img) = 8

====
